---- MODULE Spec2Model ----
(***************************************************************************)
(* Model of Myloop.py: the smoothness score, the cycle ranking engine      *)
(* (generate_smart_loops), the GPX exporter and the Streamlit script's     *)
(* session state across reruns.                                            *)
(*                                                                         *)
(* Units: coordinates are integers (thousandths of a degree), lengths are  *)
(* integer meters, angles are integer degrees.  The tolerance 0.10 is kept *)
(* as a percentage, so the window bounds are exact.                        *)
(***************************************************************************)
EXTENDS Integers, Sequences, FiniteSets, TLC

VARIABLES
    \* one call of generate_smart_loops
    G, start_node, desired_distance_km, max_cycles, rpc, enumerated, examined, result,
    \* one call of calculate_loop_smoothness (on graph G)
    loop_in, score, spc,
    \* one call of export_gpx
    route_in, gpx_bytes, gpc,
    \* the Streamlit script: st.session_state, the loop selectbox, and the run in progress
    latlon, route_df, loops_found, map_center, selected_loop_idx, loop_options,
    upc, trigger, G_bound, loops_graph, route_before, request_failed

rankVars == <<G, start_node, desired_distance_km, max_cycles, rpc, enumerated, examined, result>>
smoothVars == <<loop_in, score, spc>>
gpxVars == <<route_in, gpx_bytes, gpc>>

sessionVars == <<latlon, route_df, loops_found, map_center>>
widgetVars == <<selected_loop_idx, loop_options>>
runVars == <<upc, trigger, G_bound, loops_graph, route_before, request_failed>>
uiVars == <<sessionVars, widgetVars, runVars>>

vars == <<rankVars, smoothVars, gpxVars, uiVars>>

-----------------------------------------------------------------------------
(* Bounds of the model *)

\* max_cycles is drawn from 1..MaxCyclesCap
MaxCyclesCap == 2
\* desired_distance_km is drawn from 1..MaxTargetKm
MaxTargetKm == 1
\* road lengths are 150 m * k for k in 2..MaxLenSteps
MaxLenSteps == 3
\* calculate_loop_smoothness is applied to closed node sequences of 3..MaxLoopLen nodes
MaxLoopLen == 4
\* export_gpx is applied to coordinate sequences of 0..MaxPoints points
MaxPoints == 3

-----------------------------------------------------------------------------
(* Generic helpers *)

Min(a, b) == IF a <= b THEN a ELSE b

Range(s) == {s[i] : i \in DOMAIN s}

\* all orderings of a finite set, as sequences
Orderings(S) ==
    {f \in [1..Cardinality(S) -> S] : \A i, j \in 1..Cardinality(S) : i # j => f[i] # f[j]}

\* all rearrangements of a sequence
Rearrangements(s) ==
    {[i \in 1..Len(s) |-> s[p[i]]] : p \in Orderings(1..Len(s))}

-----------------------------------------------------------------------------
(* Road graphs (the osmnx MultiDiGraph handed to the functions)            *)
(*   nodes  : node ids                                                     *)
(*   x, y   : node attributes 'x' (lon) and 'y' (lat)                      *)
(*   adj    : directed adjacency (u, v), any edge key                      *)
(*   length : 'length' of edge (u, v, 0); (u, v) is outside its domain     *)
(*            when the graph has no edge (u, v) with key 0                 *)

Nodes == {1, 2, 3}

Roads == {<<1, 2>>, <<2, 3>>, <<1, 3>>}

RoadLengths == {150 * k : k \in 2..MaxLenSteps}

LongRoad == 150 * MaxLenSteps

\* a road is absent, a two-way street of some length, a one-way street, or a
\* two-way street whose reverse direction only exists under a key other than 0
RoadOptions ==
    {[kind |-> "none", len |-> 0]}
    \cup {[kind |-> "two", len |-> l] : l \in RoadLengths}
    \cup {[kind |-> k, len |-> LongRoad] : k \in {"oneway", "nokey"}}

\* node coordinates: a right-angled triangle, and one where nodes 1 and 2 are
\* two distinct nodes at the same coordinates
Triangle ==
    [x |-> (1 :> 46000 @@ 2 :> 46001 @@ 3 :> 46000),
     y |-> (1 :> 24000 @@ 2 :> 24000 @@ 3 :> 24001)]

Coincident ==
    [x |-> (1 :> 46000 @@ 2 :> 46000 @@ 3 :> 46000),
     y |-> (1 :> 24000 @@ 2 :> 24000 @@ 3 :> 24001)]

\* loop: node 3 carries a loop street 3 -> 3 of 1000 m
Layouts ==
    { [pos |-> Triangle, loop |-> FALSE],
      [pos |-> Triangle, loop |-> TRUE],
      [pos |-> Coincident, loop |-> FALSE] }

Reverse(e) == <<e[2], e[1]>>

RoadAdj(opt) ==
    UNION {IF opt[r].kind = "none" THEN {}
           ELSE IF opt[r].kind = "oneway" THEN {r}
           ELSE {r, Reverse(r)} : r \in Roads}

RoadKey0(opt) ==
    UNION {IF opt[r].kind = "none" THEN {}
           ELSE IF opt[r].kind \in {"oneway", "nokey"} THEN {r}
           ELSE {r, Reverse(r)} : r \in Roads}

RoadLen(opt, e) == IF e \in Roads THEN opt[e].len ELSE opt[Reverse(e)].len

MakeGraph(layout, opt) ==
    LET loopEdge == IF layout.loop THEN {<<3, 3>>} ELSE {}
    IN  [nodes  |-> Nodes,
         x      |-> layout.pos.x,
         y      |-> layout.pos.y,
         adj    |-> RoadAdj(opt) \cup loopEdge,
         length |-> [e \in RoadKey0(opt) \cup loopEdge |->
                        IF e = <<3, 3>> THEN 1000 ELSE RoadLen(opt, e)]]

Graphs == {MakeGraph(l, opt) : l \in Layouts, opt \in [Roads -> RoadOptions]}

-----------------------------------------------------------------------------
(* Smoothness scoring, lines 15-32.  A score is a float: either a number   *)
(* of degrees or NaN.                                                      *)

Num(d) == [nan |-> FALSE, deg |-> d]
NaN == [nan |-> TRUE, deg |-> 0]

\* float comparison a < b and a <= b: false as soon as one side is NaN
FloatLt(a, b) == ~a.nan /\ ~b.nan /\ a.deg < b.deg
FloatLe(a, b) == ~a.nan /\ ~b.nan /\ a.deg <= b.deg

Dot(u, v) == u[1] * v[1] + u[2] * v[2]

\* np.degrees(np.arccos(np.clip(dot / (|ba| * |bc|), -1, 1))).  The quotient is
\* 0/0 = nan when a segment has length zero; otherwise the cosine is identified
\* exactly by comparing dot^2 with |ba|^2 * |bc|^2.  The node coordinates used
\* here only produce the cosines listed, so the last branch is never taken.
AngleDeg(ba, bc) ==
    LET d == Dot(ba, bc)
        n == Dot(ba, ba) * Dot(bc, bc)
    IN  IF n = 0 THEN NaN
        ELSE IF d = 0 THEN Num(90)
        ELSE IF d * d = n THEN (IF d > 0 THEN Num(0) ELSE Num(180))
        ELSE IF 2 * d * d = n THEN (IF d > 0 THEN Num(45) ELSE Num(135))
        ELSE IF 4 * d * d = n THEN (IF d > 0 THEN Num(60) ELSE Num(120))
        ELSE IF 4 * d * d = 3 * n THEN (IF d > 0 THEN Num(30) ELSE Num(150))
        ELSE NaN

FloatAdd(a, b) == IF a.nan \/ b.nan THEN NaN ELSE Num(a.deg + b.deg)

Coord(g, n) == <<g.x[n], g.y[n]>>

Minus(p, q) == <<p[1] - q[1], p[2] - q[2]>>

\* the angle appended for interior position i (lines 20-29)
AngleAt(g, loop, i) ==
    LET a == Coord(g, loop[i - 1])
        b == Coord(g, loop[i])
        c == Coord(g, loop[i + 1])
    IN  AngleDeg(Minus(a, b), Minus(c, b))

RECURSIVE SumAngles(_, _, _)
SumAngles(g, loop, i) ==
    IF i > Len(loop) - 1 THEN Num(0)
    ELSE FloatAdd(AngleAt(g, loop, i), SumAngles(g, loop, i + 1))

calculate_loop_smoothness(g, loop) == SumAngles(g, loop, 2)

-----------------------------------------------------------------------------
(* nx.simple_cycles(G.to_directed()), line 38: self-loops first, then, root *)
(* by root, every simple cycle through the root (the root first), the root  *)
(* being removed afterwards.  The order of the roots and the order of the   *)
(* cycles of one root are the library's choice.                             *)

IsCycleFrom(g, root, alive, s) ==
    /\ s[1] = root
    /\ \A i, j \in DOMAIN s : i # j => s[i] # s[j]
    /\ \A i \in 1..(Len(s) - 1) : <<s[i], s[i + 1]>> \in g.adj
    /\ <<s[Len(s)], s[1]>> \in g.adj

CyclesFrom(g, root, alive) ==
    UNION {{s \in [1..k -> alive] : IsCycleFrom(g, root, alive, s)} : k \in 2..Cardinality(alive)}

SelfLoopCycles(g) == {<<v>> : v \in {n \in g.nodes : <<n, n>> \in g.adj}}

RECURSIVE RootedLists(_, _, _)
RootedLists(g, order, k) ==
    IF k > Len(order) THEN {<<>>}
    ELSE {p \o rest : p \in Orderings(CyclesFrom(g, order[k], {order[j] : j \in k..Len(order)})),
                      rest \in RootedLists(g, order, k + 1)}

simple_cycles(g) ==
    {sl \o rest : sl \in Orderings(SelfLoopCycles(g)),
                  rest \in UNION {RootedLists(g, order, 1) : order \in Orderings(g.nodes)}}

-----------------------------------------------------------------------------
(* generate_smart_loops, lines 37-60 *)

\* the default tolerance=0.10, as a percentage
TolerancePct == 10

min_distance_m(km) == (km * 1000 * (100 - TolerancePct)) \div 100
max_distance_m(km) == (km * 1000 * (100 + TolerancePct)) \div 100

\* line 46
Close(cycle) == Append(cycle, cycle[1])

\* G.edges[u, v, 0]['length'] raises KeyError
LengthFails(g, loop) ==
    \E i \in 1..(Len(loop) - 1) : <<loop[i], loop[i + 1]>> \notin DOMAIN g.length

RECURSIVE SumLengths(_, _, _)
SumLengths(g, loop, i) ==
    IF i > Len(loop) - 1 THEN 0
    ELSE g.length[<<loop[i], loop[i + 1]>>] + SumLengths(g, loop, i + 1)

\* lines 48-51
LoopLength(g, loop) == SumLengths(g, loop, 1)

\* the window test without its upper bound
InWindowNoUpper(km, length) == min_distance_m(km) <= length

\* line 52
InWindow(km, length) == min_distance_m(km) <= length /\ length <= max_distance_m(km)

Entry(g, loop) ==
    [cycle |-> loop, length |-> LoopLength(g, loop),
     smoothness |-> calculate_loop_smoothness(g, loop)]

\* the for loop without the try block: the first KeyError ends the call
RECURSIVE ProcessCyclesNoTry(_, _, _, _, _)
ProcessCyclesNoTry(g, km, cycles, i, loops) ==
    IF i > Len(cycles) THEN [raised |-> FALSE, loops |-> loops]
    ELSE LET closed == Append(cycles[i], cycles[i][1])
         IN  IF \E k \in 1..(Len(closed) - 1) : <<closed[k], closed[k + 1]>> \notin DOMAIN g.length
             THEN [raised |-> TRUE, loops |-> <<>>]
             ELSE IF InWindow(km, LoopLength(g, closed))
                  THEN ProcessCyclesNoTry(g, km, cycles, i + 1, Append(loops, Entry(g, closed)))
                  ELSE ProcessCyclesNoTry(g, km, cycles, i + 1, loops)

\* lines 45-56: the for loop over the examined cycles, from position i on, with
\* the loops appended so far.  An exception in the try block skips the cycle.
RECURSIVE ProcessCycles(_, _, _, _, _)
ProcessCycles(g, km, cycles, i, loops) ==
    IF i > Len(cycles) THEN [raised |-> FALSE, loops |-> loops]
    ELSE LET loop == Close(cycles[i])
         IN  IF LengthFails(g, loop) THEN ProcessCycles(g, km, cycles, i + 1, loops)
             ELSE IF InWindow(km, LoopLength(g, loop))
                  THEN ProcessCycles(g, km, cycles, i + 1, Append(loops, Entry(g, loop)))
                  ELSE ProcessCycles(g, km, cycles, i + 1, loops)

\* cycles[:max_cycles], line 45
Slice(cycles, n) == SubSeq(cycles, 1, Min(n, Len(cycles)))

\* insertion of e after every element that is not greater (stable)
RECURSIVE InsertSorted(_, _)
InsertSorted(s, e) ==
    IF s = <<>> THEN <<e>>
    ELSE IF FloatLt(e.smoothness, s[Len(s)].smoothness)
         THEN Append(InsertSorted(SubSeq(s, 1, Len(s) - 1), e), s[Len(s)])
         ELSE Append(s, e)

RECURSIVE StableSort(_, _)
StableSort(s, n) ==
    IF n = 0 THEN <<>> ELSE InsertSorted(StableSort(s, n - 1), s[n])

\* loops.sort(key=lambda x: x[2]), line 59: a stable ascending sort; with a NaN
\* key the comparisons are inconsistent and the resulting order is unspecified
SortOutcomes(loops) ==
    IF \E i \in DOMAIN loops : loops[i].smoothness.nan
    THEN Rearrangements(loops)
    ELSE {StableSort(loops, Len(loops))}

\* the runs of one call, lines 37-60: the cycles the library enumerated (all of
\* them, line 38), the ones examined (line 45), and the list returned (line 60)
generate_smart_loops(g, start, km, maxc) ==
    UNION {LET out == ProcessCycles(g, km, Slice(cycles, maxc), 1, <<>>)
           IN  {[enumerated |-> Len(cycles), examined |-> Slice(cycles, maxc),
                 raised |-> out.raised, loops |-> sorted] : sorted \in SortOutcomes(out.loops)}
           : cycles \in simple_cycles(g)}

-----------------------------------------------------------------------------
(* export_gpx, lines 65-77 *)

Pad2(n) == IF n < 10 THEN "0" \o ToString(n) ELSE ToString(n)
Pad3(n) == IF n < 100 THEN "0" \o Pad2(n) ELSE ToString(n)

\* the decimals of a float with f thousandths, trailing zeros dropped
FracText(f) ==
    IF f % 100 = 0 THEN ToString(f \div 100)
    ELSE IF f % 10 = 0 THEN Pad2(f \div 10)
    ELSE Pad3(f)

\* str(row["lat"]): the text of the float v / 1000, as in "24.0", "24.001", "-0.5"
Str(v) ==
    LET a == IF v < 0 THEN 0 - v ELSE v
    IN  (IF v < 0 THEN "-" ELSE "") \o ToString(a \div 1000) \o "." \o FracText(a % 1000)

\* a track point with latitude and longitude exchanged
TrackPointSwapped(row) ==
    [tag |-> "trkpt", lat |-> Str(row.lon), lon |-> Str(row.lat),
     children |-> <<[tag |-> "ele", text |-> "0"]>>]

\* lines 71-72
TrackPoint(row) ==
    [tag |-> "trkpt", lat |-> Str(row.lat), lon |-> Str(row.lon),
     children |-> <<[tag |-> "ele", text |-> "0"]>>]

\* line 70: one track point per row, in row order
TrackPoints(df) == [i \in 1..Len(df) |-> TrackPoint(df[i])]

\* the document written at lines 74-77
export_gpx(df) ==
    [declaration |-> "<?xml version='1.0' encoding='utf-8'?>",
     root |-> [tag |-> "gpx", version |-> "1.1", creator |-> "RunningLoopApp",
               children |-> <<[tag |-> "trk",
                               children |-> <<[tag |-> "trkseg",
                                               children |-> TrackPoints(df)]>>]>>]]

-----------------------------------------------------------------------------
(* Idle values of the variables a specification does not use *)

NoResult == [raised |-> FALSE, loops |-> <<>>]
NoDocument == [declaration |-> "", root |-> [tag |-> "", version |-> "", creator |-> "",
                                              children |-> <<>>]]

RankIdle ==
    /\ start_node = 1
    /\ desired_distance_km = 1
    /\ max_cycles = 1
    /\ rpc = "idle"
    /\ enumerated = 0
    /\ examined = <<>>
    /\ result = NoResult

SmoothIdle == loop_in = <<>> /\ score = Num(0) /\ spc = "idle"

GpxIdle == route_in = <<>> /\ gpx_bytes = NoDocument /\ gpc = "idle"

NoneDF == [none |-> TRUE, rows |-> <<>>]
AllTwoWay == [r \in Roads |-> [kind |-> "two", len |-> LongRoad]]
IdleGraph == MakeGraph([pos |-> Triangle, loop |-> FALSE], AllTwoWay)

UiIdle ==
    /\ latlon = <<>>
    /\ route_df = NoneDF
    /\ loops_found = <<>>
    /\ map_center = <<>>
    /\ selected_loop_idx = 1
    /\ loop_options = <<>>
    /\ upc = "off"
    /\ trigger = "none"
    /\ G_bound = FALSE
    /\ loops_graph = IdleGraph
    /\ route_before = NoneDF
    /\ request_failed = FALSE

-----------------------------------------------------------------------------
(* One call of generate_smart_loops *)

InitRank ==
    /\ G \in Graphs
    /\ start_node \in Nodes
    /\ desired_distance_km \in 1..MaxTargetKm
    /\ max_cycles \in 1..MaxCyclesCap
    /\ rpc = "call"
    /\ enumerated = 0
    /\ examined = <<>>
    /\ result = NoResult
    /\ SmoothIdle
    /\ GpxIdle
    /\ UiIdle

Call ==
    /\ rpc = "call"
    /\ \E run \in generate_smart_loops(G, start_node, desired_distance_km, max_cycles) :
         /\ enumerated' = run.enumerated
         /\ examined' = run.examined
         /\ result' = [raised |-> run.raised, loops |-> run.loops]
    /\ rpc' = "returned"
    /\ UNCHANGED <<G, start_node, desired_distance_km, max_cycles, smoothVars, gpxVars, uiVars>>

NextRank == Call

SpecRank == InitRank /\ [][NextRank]_vars

-----------------------------------------------------------------------------
(* One call of calculate_loop_smoothness *)

\* nodes 1, 2, 3 in a straight line
Collinear ==
    [x |-> (1 :> 46000 @@ 2 :> 46001 @@ 3 :> 46002),
     y |-> (1 :> 24000 @@ 2 :> 24000 @@ 3 :> 24000)]

SmoothGraphs ==
    {MakeGraph([pos |-> p, loop |-> FALSE], AllTwoWay) : p \in {Triangle, Coincident, Collinear}}

ClosedSequences ==
    UNION {{s \in [1..k -> Nodes] : s[1] = s[k]} : k \in 3..MaxLoopLen}

InitSmooth ==
    /\ G \in SmoothGraphs
    /\ loop_in \in ClosedSequences
    /\ score = Num(0)
    /\ spc = "call"
    /\ RankIdle
    /\ GpxIdle
    /\ UiIdle

Score ==
    /\ spc = "call"
    /\ score' = calculate_loop_smoothness(G, loop_in)
    /\ spc' = "returned"
    /\ UNCHANGED <<loop_in, rankVars, gpxVars, uiVars>>

NextSmooth == Score

SpecSmooth == InitSmooth /\ [][NextSmooth]_vars

-----------------------------------------------------------------------------
(* One call of export_gpx *)

GeoPoints == {[lat |-> la, lon |-> lo] : la \in {24000, 24001, 0 - 500}, lo \in {46000, 46001}}

CoordinateSequences == UNION {[1..n -> GeoPoints] : n \in 0..MaxPoints}

InitGpx ==
    /\ route_in \in CoordinateSequences
    /\ gpx_bytes = NoDocument
    /\ gpc = "call"
    /\ G = IdleGraph
    /\ RankIdle
    /\ SmoothIdle
    /\ UiIdle

Export ==
    /\ gpc = "call"
    /\ gpx_bytes' = export_gpx(route_in)
    /\ gpc' = "returned"
    /\ UNCHANGED <<route_in, rankVars, smoothVars, uiVars>>

NextGpx == Export

SpecGpx == InitGpx /\ [][NextGpx]_vars

-----------------------------------------------------------------------------
(* The Streamlit script, lines 82-221.  Every widget interaction reruns the *)
(* script from the top in a fresh namespace; only st.session_state and the  *)
(* widgets' values survive.  A run is three steps: the top of the script    *)
(* (lines 89-162), the Find Loops section (lines 167-187) and the display   *)
(* section (lines 192-221).                                                 *)

\* max_cycles=800, line 178
FindMaxCycles == 800

\* two of the presets of lines 103-122, in 1/10000 degree
Neighborhoods ==
    ("Al Ghadir" :> <<247915, 466548>> @@ "Al Wadi" :> <<247906, 466507>>)

\* the points the user clicks on the map
ClickPoints == {<<24000, 46000>>, <<24001, 46001>>}

Two(l) == [kind |-> "two", len |-> l]
NoRoad == [kind |-> "none", len |-> 0]

\* restriction of a graph to the nodes ns
Subgraph(g, ns) ==
    [nodes  |-> ns,
     x      |-> g.x,
     y      |-> g.y,
     adj    |-> {e \in g.adj : e[1] \in ns /\ e[2] \in ns},
     length |-> [e \in {d \in DOMAIN g.length : d[1] \in ns /\ d[2] \in ns} |-> g.length[e]]]

\* the networks ox.graph_from_point (line 175) returns around the clicked
\* points: the same nodes at the same coordinates, with different streets
UIGraphs ==
    LET plain == [pos |-> Triangle, loop |-> FALSE]
    IN  { MakeGraph(plain, (<<1, 2>> :> Two(450) @@ <<2, 3>> :> Two(450) @@ <<1, 3>> :> NoRoad)),
          MakeGraph(plain, (<<1, 2>> :> Two(300) @@ <<2, 3>> :> Two(450) @@ <<1, 3>> :> Two(300))),
          Subgraph(MakeGraph(plain, (<<1, 2>> :> Two(300) @@ <<2, 3>> :> NoRoad @@ <<1, 3>> :> NoRoad)),
                   {1, 2}) }

SquareDist(g, n, lon, lat) ==
    (g.x[n] - lon) * (g.x[n] - lon) + (g.y[n] - lat) * (g.y[n] - lat)

\* ox.distance.nearest_nodes(G, lon, lat), line 176: a node at the least distance
nearest_nodes(g, lon, lat) ==
    {n \in g.nodes : \A m \in g.nodes : SquareDist(g, n, lon, lat) <= SquareDist(g, m, lon, lat)}

\* {length/1000:.2f}: the length in hundredths of a kilometre
Km2(length) == (length + 5) \div 10

\* loop_options, line 193: one label per stored loop
LoopOptions(loops) ==
    [i \in 1..Len(loops) |-> <<i, Km2(loops[i].length), loops[i].smoothness>>]

InitUI ==
    /\ latlon = <<>>
    /\ route_df = NoneDF
    /\ loops_found = <<>>
    /\ map_center = Neighborhoods["Al Ghadir"]
    /\ selected_loop_idx = 1
    /\ loop_options = <<>>
    /\ upc = "idle"
    /\ trigger = "none"
    /\ G_bound = FALSE
    /\ loops_graph = IdleGraph
    /\ route_before = NoneDF
    /\ request_failed = FALSE
    /\ G = IdleGraph
    /\ RankIdle
    /\ SmoothIdle
    /\ GpxIdle

\* the start of a run: nothing is bound in the script's namespace
StartRun(kind) ==
    /\ upc = "idle"
    /\ upc' = "generate"
    /\ trigger' = kind
    /\ G_bound' = FALSE
    /\ route_before' = route_df
    /\ request_failed' = FALSE
    /\ UNCHANGED <<G, start_node, max_cycles, rpc, enumerated, examined, result,
                   smoothVars, gpxVars, route_df, loops_found, loop_options, loops_graph>>

\* lines 159-162
MapClick ==
    /\ \E p \in ClickPoints : latlon' = p
    /\ StartRun("click")
    /\ UNCHANGED <<map_center, selected_loop_idx, desired_distance_km>>

\* lines 124-133
NeighborhoodChange ==
    /\ \E n \in DOMAIN Neighborhoods : map_center' = Neighborhoods[n]
    /\ StartRun("neighborhood")
    /\ UNCHANGED <<latlon, selected_loop_idx, desired_distance_km>>

\* the selectbox of line 194, shown by the previous run
LoopSelect ==
    /\ \E i \in DOMAIN loop_options : i # selected_loop_idx /\ selected_loop_idx' = i
    /\ StartRun("select")
    /\ UNCHANGED <<latlon, map_center, desired_distance_km>>

\* the button of line 173, shown once a point is selected (line 167), with the
\* slider of line 171 at some distance
FindLoopsPress ==
    /\ latlon # <<>>
    /\ desired_distance_km' \in 1..MaxTargetKm
    /\ StartRun("find")
    /\ UNCHANGED <<latlon, map_center, selected_loop_idx>>

\* any other interaction: the slider, panning a map, the Komoot button
OtherRerun ==
    /\ StartRun("other")
    /\ UNCHANGED <<latlon, map_center, selected_loop_idx, desired_distance_km>>

FindSectionDone ==
    /\ upc' = "display"
    /\ UNCHANGED <<start_node, max_cycles, rpc, enumerated, examined, result, smoothVars, gpxVars,
                   latlon, route_df, map_center, widgetVars, trigger, route_before, desired_distance_km>>

\* line 173: st.button is False in this run
ButtonNotPressed ==
    /\ upc = "generate"
    /\ trigger # "find"
    /\ FindSectionDone
    /\ UNCHANGED <<G, G_bound, loops_found, loops_graph, request_failed>>

\* line 175 raises: G stays unbound, lines 186-187 report the error
FetchRaises ==
    /\ upc = "generate"
    /\ trigger = "find"
    /\ FindSectionDone
    /\ request_failed' = TRUE
    /\ UNCHANGED <<G, G_bound, loops_found, loops_graph>>

\* line 175 binds G, then line 176 or line 178 raises
GenerationRaises ==
    /\ upc = "generate"
    /\ trigger = "find"
    /\ FindSectionDone
    /\ G' \in UIGraphs
    /\ G_bound' = TRUE
    /\ request_failed' = TRUE
    /\ UNCHANGED <<loops_found, loops_graph>>

\* lines 175-184 run through; an empty list is reported as an error (line 182)
LoopsGenerated ==
    /\ upc = "generate"
    /\ trigger = "find"
    /\ FindSectionDone
    /\ \E g \in UIGraphs :
         \E start \in nearest_nodes(g, latlon[2], latlon[1]) :
            \E run \in generate_smart_loops(g, start, desired_distance_km, FindMaxCycles) :
                /\ G' = g
                /\ loops_found' = run.loops
                /\ request_failed' = (run.loops = <<>>)
    /\ G_bound' = TRUE
    /\ loops_graph' = G'

\* the end of a run: the script's namespace is discarded
RunDone ==
    /\ upc' = "idle"
    /\ trigger' = "none"
    /\ G_bound' = FALSE
    /\ UNCHANGED <<rankVars, smoothVars, route_in, gpc, latlon, loops_found, map_center,
                   loops_graph, route_before, request_failed>>

\* line 192 is false: the selectbox is not shown and its value is dropped
NothingToDisplay ==
    /\ upc = "display"
    /\ loops_found = <<>>
    /\ loop_options' = <<>>
    /\ selected_loop_idx' = 1
    /\ RunDone
    /\ UNCHANGED <<route_df, gpx_bytes>>

\* line 194: a selectbox with other options is a new widget, at index 0
ShownIndex ==
    IF LoopOptions(loops_found) = loop_options THEN selected_loop_idx ELSE 1

\* lines 193-197 run, then line 200 reads G: NameError when this run did not
\* bind it, KeyError when the bound graph lacks a node of the loop
DisplayRaises ==
    /\ upc = "display"
    /\ loops_found # <<>>
    /\ \/ ~G_bound
       \/ \E n \in Range(loops_found[ShownIndex].cycle) : n \notin G.nodes
    /\ loop_options' = LoopOptions(loops_found)
    /\ selected_loop_idx' = ShownIndex
    /\ RunDone
    /\ UNCHANGED <<route_df, gpx_bytes>>

\* lines 200-201
RouteOf(g, selected_loop) ==
    [i \in 1..Len(selected_loop) |-> [lat |-> g.y[selected_loop[i]], lon |-> g.x[selected_loop[i]]]]

\* lines 193-216
DisplayLoop ==
    /\ upc = "display"
    /\ loops_found # <<>>
    /\ G_bound
    /\ \A n \in Range(loops_found[ShownIndex].cycle) : n \in G.nodes
    /\ loop_options' = LoopOptions(loops_found)
    /\ selected_loop_idx' = ShownIndex
    /\ route_df' = [none |-> FALSE, rows |-> RouteOf(G, loops_found[ShownIndex].cycle)]
    /\ gpx_bytes' = export_gpx(route_df'.rows)
    /\ RunDone

NextUI ==
    \/ MapClick
    \/ NeighborhoodChange
    \/ LoopSelect
    \/ FindLoopsPress
    \/ OtherRerun
    \/ ButtonNotPressed
    \/ FetchRaises
    \/ GenerationRaises
    \/ LoopsGenerated
    \/ NothingToDisplay
    \/ DisplayRaises
    \/ DisplayLoop

SpecUI == InitUI /\ [][NextUI]_vars

-----------------------------------------------------------------------------
(* Properties of generate_smart_loops, checked under SpecRank *)

Returned == rpc = "returned"

Loops == result.loops

\* C1: the returned list is ordered ascending by smoothness score: for any two
\* positions i < j, score[i] <= score[j]
C1_AscendingBySmoothness ==
    Returned =>
        \A i, j \in DOMAIN Loops :
            i < j => FloatLe(Loops[i].smoothness, Loops[j].smoothness)

\* C2: every returned candidate is a closed cycle whose recorded length is the
\* sum of its edge lengths and lies in [km*1000*0.9, km*1000*1.1]
C2_LengthInWindow ==
    Returned =>
        \A i \in DOMAIN Loops :
            LET l == Loops[i]
            IN  /\ l.cycle[1] = l.cycle[Len(l.cycle)]
                /\ \A k \in 1..(Len(l.cycle) - 1) : <<l.cycle[k], l.cycle[k + 1]>> \in DOMAIN G.length
                /\ l.length = SumLengths(G, l.cycle, 1)
                /\ desired_distance_km * 900 <= l.length
                /\ l.length <= desired_distance_km * 1100

ExaminedLength(i) == SumLengths(G, Close(examined[i]), 1)

\* a call that returned a loop of exactly the lower bound of the window and
\* examined a cycle whose length is outside the window
C2_Witness ==
    /\ Returned
    /\ \E i \in DOMAIN Loops : Loops[i].length = desired_distance_km * 900
    /\ \E i \in DOMAIN examined :
        /\ ~LengthFails(G, Close(examined[i]))
        /\ \/ ExaminedLength(i) < desired_distance_km * 900
           \/ ExaminedLength(i) > desired_distance_km * 1100

\* C3: every returned loop starts and ends at start_node
C3_StartsAndEndsAtStartNode ==
    Returned =>
        \A i \in DOMAIN Loops :
            /\ Loops[i].cycle[1] = start_node
            /\ Loops[i].cycle[Len(Loops[i].cycle)] = start_node

\* the road segment walked at step k of a node sequence
Segment(c, k) == {c[k], c[k + 1]}

\* C4: no returned loop traverses the same road segment twice
C4_NoSegmentTwice ==
    Returned =>
        \A i \in DOMAIN Loops :
            \A k, m \in 1..(Len(Loops[i].cycle) - 1) :
                k # m => Segment(Loops[i].cycle, k) # Segment(Loops[i].cycle, m)

\* C6: no more than max_cycles simple cycles are enumerated during one call
C6_EnumerationBounded == Returned => enumerated <= max_cycles

\* an examined cycle whose length computation succeeds with a length in the window
Qualifies(i) ==
    /\ ~LengthFails(G, Close(examined[i]))
    /\ desired_distance_km * 900 <= ExaminedLength(i)
    /\ ExaminedLength(i) <= desired_distance_km * 1100

\* C7: a failing length computation skips only that cycle: no error reaches the
\* caller and every examined cycle with a length in the window is returned
C7_FailureSkipsOnlyThatCycle ==
    Returned =>
        /\ ~result.raised
        /\ \A i \in DOMAIN examined :
              Qualifies(i) => \E k \in DOMAIN Loops : Loops[k].cycle = Close(examined[i])
        /\ Len(Loops) = Cardinality({i \in DOMAIN examined : Qualifies(i)})

\* a call in which a cycle failed and a cycle examined after it was returned
C7_Witness ==
    /\ Returned
    /\ \E i, j \in DOMAIN examined :
        /\ i < j
        /\ LengthFails(G, Close(examined[i]))
        /\ \E k \in DOMAIN Loops : Loops[k].cycle = Close(examined[j])

-----------------------------------------------------------------------------
(* Properties of calculate_loop_smoothness, checked under SpecSmooth *)

DistinctConsecutive ==
    \A i \in 1..(Len(loop_in) - 1) : Coord(G, loop_in[i]) # Coord(G, loop_in[i + 1])

Cross(u, v) == u[1] * v[2] - u[2] * v[1]

\* at interior position i the outgoing direction equals the incoming direction
StraightAt(i) ==
    LET incoming == Minus(Coord(G, loop_in[i]), Coord(G, loop_in[i - 1]))
        outgoing == Minus(Coord(G, loop_in[i + 1]), Coord(G, loop_in[i]))
    IN  Cross(incoming, outgoing) = 0 /\ Dot(incoming, outgoing) > 0

\* C5: for a closed node sequence whose consecutive nodes have distinct
\* coordinates the score is non-negative, and it is 0 only when the traversal
\* is straight at every interior node
C5_ZeroOnlyWhenStraight ==
    (spc = "returned" /\ DistinctConsecutive) =>
        /\ ~score.nan
        /\ score.deg >= 0
        /\ score.deg = 0 => \A i \in 2..(Len(loop_in) - 1) : StraightAt(i)

-----------------------------------------------------------------------------
(* Properties of export_gpx, checked under SpecGpx *)

\* the text Python prints for each coordinate value of GeoPoints
ExpectedText ==
    (24000 :> "24.0" @@ 24001 :> "24.001" @@ (0 - 500) :> "-0.5"
     @@ 46000 :> "46.0" @@ 46001 :> "46.001")

\* C9: export_gpx emits one track segment holding exactly one track point per
\* input coordinate, in input order, the i-th carrying the i-th latitude and
\* longitude, each with one elevation child of text "0"
C9_OneTrackPointPerCoordinate ==
    gpc = "returned" =>
        LET trks == gpx_bytes.root.children
        IN  /\ Len(trks) = 1
            /\ Len(trks[1].children) = 1
            /\ LET pts == trks[1].children[1].children
               IN  /\ Len(pts) = Len(route_in)
                   /\ \A i \in DOMAIN route_in :
                        /\ pts[i].tag = "trkpt"
                        /\ pts[i].lat = ExpectedText[route_in[i].lat]
                        /\ pts[i].lon = ExpectedText[route_in[i].lon]
                        /\ pts[i].children = <<[tag |-> "ele", text |-> "0"]>>

\* the two-point scenario (24.0, 46.0), (24.001, 46.001) has been exported
C9_Witness ==
    /\ gpc = "returned"
    /\ route_in = <<[lat |-> 24000, lon |-> 46000], [lat |-> 24001, lon |-> 46001]>>
    /\ Len(gpx_bytes.root.children[1].children[1].children) = 2

-----------------------------------------------------------------------------
(* Properties of the Streamlit script, checked under SpecUI *)

\* C8: a failed Find Loops request leaves session_state.route_df as it was
\* before the request
C8_FailedRequestKeepsRoute ==
    (upc = "idle" /\ request_failed) => route_df = route_before

\* C10: whenever the display section runs with stored loops, G is bound in that
\* run and is the graph the stored loops were computed from
C10_DisplayReadsBoundGraph ==
    (upc = "display" /\ loops_found # <<>>) => (G_bound /\ G = loops_graph)

====
